---- MODULE Spec2Model ----
(***************************************************************************)
(* CT_classifier: the MONAI preprocessing boundary (data/preprocessing.py) *)
(* and the 3D Vision Transformer (models/vit3d.py), modelled at the level  *)
(* of tensor shapes, parameter tables, log records and call outcomes; the  *)
(* JSON report writer (evaluation/reporting.py) and the dataset wrappers   *)
(* exercised by tests/unit/data/test_dataset.py.                           *)
(*                                                                         *)
(*   pipeline  the Compose object built by the pipeline constructor        *)
(*   pre       the preprocessing invocation in progress, with its outcome  *)
(*   model     the VisionTransformer3D instance                            *)
(*   fwd       the forward call in progress, with its outcome              *)
(*   voxel     the image the intensity step is working on                  *)
(*   workers   the invocations of the concurrent preprocessing workers     *)
(*   saved     what invocations share besides the pipeline's settings: the *)
(*             files of the output directory and the call count kept by    *)
(*             the persistence step                                        *)
(*   dump      the report being written by safe_json_dump                  *)
(*   ds        the dataset wrapper call in progress                        *)
(***************************************************************************)
EXTENDS Integers, Sequences, FiniteSets, TLC

VARIABLES pipeline, pre, model, fwd, voxel, workers, dump, ds, saved

vars == <<pipeline, pre, model, fwd, voxel, workers, dump, ds, saved>>

\* the state of the parts that an action of another part leaves alone
others == <<voxel, workers, dump, ds, saved>>

(***************************************************************************)
(* Bounds of the model.                                                    *)
(***************************************************************************)
\* largest extent of one axis of a tensor produced by a transform chain
MaxDim == 2
\* largest number of keyword arguments a caller passes to a factory
MaxKwargs == 2
\* largest multiple of the patch edge used as a volume edge
MaxGrid == 2
\* number of workers that preprocess files at the same time
MaxWorkers == 2
\* count of the persistence step from which on no new invocation is started
MaxSaves == 2
\* deepest nesting of containers inside the value of a dumped dictionary
MaxNest == 2
\* largest number of items of a wrapped dataset
MaxItems == 2

NoPipeline == [kind |-> "none"]
NoCall == [kind |-> "none"]
\* an empty output directory and a persistence step that has not run yet
NoSaves == [files |-> {}, data_index |-> 0]
NoModel == [kind |-> "none"]

(***************************************************************************)
(* Generic helpers on shapes.                                              *)
(***************************************************************************)
RECURSIVE SeqProduct(_)
SeqProduct(s) == IF Len(s) = 0 THEN 1 ELSE Head(s) * SeqProduct(Tail(s))

\* Python's s[1:], which is empty for an empty s
Slice1(s) == IF Len(s) = 0 THEN <<>> ELSE Tail(s)

AppendLast(s, x) == s \o <<x>>

\* Python's list.insert(-1, x): x goes before the last element
InsertBeforeLast(s, x) ==
    IF Len(s) = 0 THEN <<x>>
    ELSE SubSeq(s, 1, Len(s) - 1) \o <<x>> \o <<s[Len(s)]>>

(***************************************************************************)
(* data/preprocessing.py                                                   *)
(***************************************************************************)
\* the forms in which a caller hands over target_shape_dhw
TargetForms == {"tuple", "list"}
TargetShapes == [form : TargetForms, dims : [1..3 -> 1..MaxDim]]

NiiPaths == {"scan_a.nii.gz", "missing.nii.gz"}
FileExists(p) == p # "missing.nii.gz"

SavePaths == {"None", "out_dir"}

\* the targets handed to the pipeline constructor: cubes of edge 1..MaxDim
PipelineTargets == { [form |-> f, dims |-> <<d, d, d>>] : f \in TargetForms, d \in 1..MaxDim }

\* clip_hu_min and clip_hu_max of a configuration, min < max
ClipRanges == { [min |-> -1000, max |-> 400], [min |-> 0, max |-> 80] }

BaseTransforms ==
    << "LoadImaged", "EnsureChannelFirstd", "Orientationd", "Spacingd",
       "ScaleIntensityRanged", "Resized", "EnsureTyped" >>

create_monai_preprocessing_pipeline(target_shape_dhw, clip_hu_min, clip_hu_max, save_transformed_path) ==
    [ kind |-> "compose",
      spatial_size |-> target_shape_dhw.dims,
      a_min |-> clip_hu_min, a_max |-> clip_hu_max,
      b_min |-> 0, b_max |-> 1, clip |-> TRUE,
      save_dir |-> save_transformed_path,
      transforms |-> IF save_transformed_path # "None"
                     THEN InsertBeforeLast(BaseTransforms, "SaveImaged")
                     ELSE BaseTransforms ]

\* exception classes a transform step can throw
ExcTypes == {"RuntimeError", "FileNotFoundError", "ValueError", "OSError"}

\* tensor shapes of rank 0..5 with extents 1..MaxDim, and the 4-D shapes
\* with an empty channel axis
ChainShapes ==
    UNION { [1..n -> 1..MaxDim] : n \in 0..5 }
    \cup { <<0>> \o s : s \in [1..3 -> 1..MaxDim] }

\* where an array of shape sh can hold NaN/Inf values: nowhere (all), in
\* its slice [0, ...] (neither all nor first), or, when the first axis is
\* longer than 1, only outside that slice (first but not all); an array
\* with an empty axis has no values
Finiteness(sh) ==
    IF \E i \in DOMAIN sh : sh[i] = 0
    THEN { [all |-> TRUE, first |-> TRUE] }
    ELSE { [all |-> TRUE, first |-> TRUE], [all |-> FALSE, first |-> FALSE] }
         \cup IF Len(sh) >= 1 /\ sh[1] > 1 THEN { [all |-> FALSE, first |-> TRUE] } ELSE {}

\* what the file and the storage behind nii_path make of a run: the step
\* that throws (if any) and its exception, and the "image" entry the steps
\* produce when none of the steps present throws: a torch tensor or
\* MetaTensor ("tensor") of some shape with finite or NaN/Inf values, an
\* array that is no torch tensor but has ndim and shape, as a numpy.ndarray
\* ("ndarray"), an object without ndim such as a str or None
\* ("plain_object"), or no entry at all. A failing write
\* (fail_at = "SaveImaged") only shows when the pipeline has the
\* persistence step.
Envs(nii_path) ==
    IF ~FileExists(nii_path)
    THEN { [fail_at |-> "LoadImaged", exc |-> "FileNotFoundError", kind |-> "none",
            shape |-> <<>>, meta |-> FALSE, finite |-> TRUE, finite0 |-> TRUE] }
    ELSE { [fail_at |-> BaseTransforms[k], exc |-> e, kind |-> "none",
            shape |-> <<>>, meta |-> FALSE, finite |-> TRUE, finite0 |-> TRUE] :
              k \in DOMAIN BaseTransforms, e \in {"RuntimeError", "ValueError"} }
         \cup
         UNION { { [fail_at |-> w, exc |-> IF w = "none" THEN "" ELSE "OSError",
                    kind |-> "tensor", shape |-> sh, meta |-> m,
                    finite |-> f.all, finite0 |-> f.first] :
                      w \in {"none", "SaveImaged"}, m \in BOOLEAN, f \in Finiteness(sh) } :
                 sh \in ChainShapes }
         \cup
         UNION { { [fail_at |-> w, exc |-> IF w = "none" THEN "" ELSE "OSError",
                    kind |-> "ndarray", shape |-> sh, meta |-> FALSE,
                    finite |-> f.all, finite0 |-> f.first] :
                      w \in {"none", "SaveImaged"}, f \in Finiteness(sh) } :
                 sh \in ChainShapes }
         \cup
         { [fail_at |-> w, exc |-> IF w = "none" THEN "" ELSE "OSError", kind |-> k,
            shape |-> <<>>, meta |-> FALSE, finite |-> TRUE, finite0 |-> TRUE] :
              w \in {"none", "SaveImaged"}, k \in {"no_image_key", "plain_object"} }

\* the positions of the transforms list that hold the step named n
StepsNamed(transforms, n) == { k \in DOMAIN transforms : transforms[k] = n }

\* Compose.__call__ on {"image": str(nii_path)}: the steps run in list
\* order; the first one that throws ends the run with its exception,
\* otherwise the run yields what the steps produced
Compose(p, env) ==
    LET failing == StepsNamed(p.transforms, env.fail_at)
    IN  IF failing # {}
        THEN [ kind |-> "exception",
               step |-> CHOOSE k \in failing : \A j \in failing : k <= j,
               exc |-> env.exc, shape |-> <<>>, meta |-> FALSE, finite |-> TRUE,
               finite0 |-> TRUE ]
        ELSE [ kind |-> env.kind, step |-> 0, exc |-> "", shape |-> env.shape,
               meta |-> env.meta, finite |-> env.finite, finite0 |-> env.finite0 ]

\* every outcome a run of the pipeline on nii_path can have
ChainOutcomes(p, nii_path) == { Compose(p, e) : e \in Envs(nii_path) }

\* the dict a run of the pipeline works on: Compose starts from the entries
\* of the dict it is called with; LoadImaged replaces the path under
\* "image" by the array it reads and notes the path in the metadata
ComposeInput(data_dict) == [image |-> data_dict.image, filename |-> ""]
Loaded(d) == [image |-> "array", filename |-> d.image]

\* the file SaveImaged writes into output_dir (separate_folder=False): the
\* name of the file the image was read from with the postfix, or, for an
\* image without that name, the count of the step's calls
SavedName(d, data_index) ==
    IF d.filename # ""
    THEN [stem |-> d.filename, index |-> 0, postfix |-> "_transformed"]
    ELSE [stem |-> "", index |-> data_index, postfix |-> "_transformed"]

\* whether a run with outcome c got past the persistence step: the
\* pipeline has the step and no step up to and including it threw
SaveImagedRan(p, c) ==
    /\ StepsNamed(p.transforms, "SaveImaged") # {}
    /\ c.kind = "exception" => \A k \in StepsNamed(p.transforms, "SaveImaged") : c.step > k

\* the output directory and the call count after a run on nii_path with
\* outcome c: a persistence step that ran has written its file and has
\* counted one more call
Persisted(p, nii_path, c, sv) ==
    IF SaveImagedRan(p, c)
    THEN [ files |-> sv.files
                     \cup {SavedName(Loaded(ComposeInput([image |-> nii_path])), sv.data_index)},
           data_index |-> sv.data_index + 1 ]
    ELSE sv

torch_zeros(shape) ==
    [ shape |-> shape, data |-> "zeros", meta |-> FALSE, finite |-> TRUE, finite0 |-> TRUE,
      type |-> "torch.Tensor" ]

\* (1, *target_shape_dhw)
ZeroShape(target_shape_dhw) == <<1>> \o target_shape_dhw.dims

\* torch.Size != target_shape_dhw: a torch.Size is a tuple, so it compares
\* by elements with a tuple and is never equal to a list
SizeNotEqual(size, target_shape_dhw) ==
    IF target_shape_dhw.form = "tuple" THEN size # target_shape_dhw.dims ELSE TRUE

LogError(nii_path, what, exc) ==
    [level |-> "error", msg |-> what, path |-> nii_path, exc |-> exc]
LogWarning(nii_path, what) ==
    [level |-> "warning", msg |-> what, path |-> nii_path, exc |-> ""]

\* the except clause of preprocess_ct_volume_monai
Caught(nii_path, target_shape_dhw, exc, logged) ==
    [ raised |-> FALSE, exc |-> exc,
      ret |-> torch_zeros(ZeroShape(target_shape_dhw)),
      log |-> logged \o <<LogError(nii_path, "Error processing", exc)>> ]

\* the object bound to processed_tensor after lines 116-119: the chain's
\* array, a MetaTensor turned into a plain tensor by as_tensor()
Processed(chain) ==
    [ shape |-> chain.shape, data |-> "chain", meta |-> FALSE, finite |-> chain.finite,
      finite0 |-> chain.finite0,
      type |-> IF chain.kind = "tensor" THEN "torch.Tensor" ELSE "numpy.ndarray" ]

\* the fix-up of lines 121-126 calls unsqueeze(0): on a 3-D array, and on
\* a 4-D array with more than one channel
CallsUnsqueeze(t) == Len(t.shape) = 3 \/ (Len(t.shape) = 4 /\ t.shape[1] > 1)

\* unsqueeze exists on torch tensors only
HasUnsqueeze(t) == t.type = "torch.Tensor"

\* the channel fix-up of lines 121-126, on an array that has unsqueeze:
\* unsqueeze(0) puts all values under a new first axis; [0, ...] keeps the
\* values of channel 0 only, so NaN/Inf values of the other channels go
ChannelFixup(t) ==
    IF Len(t.shape) = 3
    THEN [t EXCEPT !.shape = <<1>> \o t.shape, !.finite0 = t.finite]
    ELSE IF Len(t.shape) = 4 /\ t.shape[1] # 1 /\ t.shape[1] > 1
    THEN [t EXCEPT !.shape = <<1>> \o Tail(t.shape), !.data = "chain[0]",
                   !.finite = t.finite0]
    ELSE t

ChannelWarning(nii_path, t) ==
    IF Len(t.shape) = 4 /\ t.shape[1] # 1
    THEN <<LogWarning(nii_path, "unexpected channel dimension")>>
    ELSE <<>>

preprocess_uncaught(nii_path, chain, target_shape_dhw) ==
    IF chain.kind \notin {"tensor", "ndarray"}
       \/ (CallsUnsqueeze(Processed(chain)) /\ ~HasUnsqueeze(Processed(chain)))
    THEN [ raised |-> TRUE,
           exc |-> IF chain.kind = "exception" THEN chain.exc
                   ELSE IF chain.kind = "no_image_key" THEN "KeyError"
                   ELSE "AttributeError",
           ret |-> [shape |-> <<>>, data |-> "none", meta |-> FALSE, finite |-> TRUE,
                    finite0 |-> TRUE, type |-> "none"],
           log |-> <<>> ]
    ELSE LET t == ChannelFixup(Processed(chain))
         IN  IF SizeNotEqual(Slice1(t.shape), target_shape_dhw) \/ t.shape[1] # 1
             THEN [ raised |-> FALSE, exc |-> "",
                    ret |-> torch_zeros(ZeroShape(target_shape_dhw)),
                    log |-> <<LogError(nii_path, "Shape mismatch", "")>> ]
             ELSE [ raised |-> FALSE, exc |-> "", ret |-> t, log |-> <<>> ]

preprocess_unchecked(nii_path, chain, target_shape_dhw) ==
    IF chain.kind = "exception"
    THEN Caught(nii_path, target_shape_dhw, chain.exc, <<>>)
    ELSE IF chain.kind = "no_image_key"
    THEN Caught(nii_path, target_shape_dhw, "KeyError", <<>>)
    ELSE IF chain.kind = "plain_object"
    THEN Caught(nii_path, target_shape_dhw, "AttributeError", <<>>)
    ELSE IF CallsUnsqueeze(Processed(chain)) /\ ~HasUnsqueeze(Processed(chain))
    THEN Caught(nii_path, target_shape_dhw, "AttributeError",
                ChannelWarning(nii_path, Processed(chain)))
    ELSE [ raised |-> FALSE, exc |-> "",
           ret |-> ChannelFixup(Processed(chain)),
           log |-> <<>> ]

\* lines 113-136.  A chain that throws, a result without the "image" key
\* (KeyError) and an object without ndim (AttributeError at line 121) go to
\* the except clause; so does an array without unsqueeze when the fix-up
\* calls it, after the channel warning if that was logged. Otherwise the
\* shape test of line 128 decides between the zero tensor and the object
\* itself.
preprocess_ct_volume_monai(nii_path, chain, target_shape_dhw) ==
    IF chain.kind = "exception"
    THEN Caught(nii_path, target_shape_dhw, chain.exc, <<>>)
    ELSE IF chain.kind = "no_image_key"
    THEN Caught(nii_path, target_shape_dhw, "KeyError", <<>>)
    ELSE IF chain.kind = "plain_object"
    THEN Caught(nii_path, target_shape_dhw, "AttributeError", <<>>)
    ELSE LET t0 == Processed(chain)
             t == ChannelFixup(t0)
             warned == ChannelWarning(nii_path, t0)
         IN  IF CallsUnsqueeze(t0) /\ ~HasUnsqueeze(t0)
             THEN Caught(nii_path, target_shape_dhw, "AttributeError", warned)
             ELSE IF SizeNotEqual(Slice1(t.shape), target_shape_dhw)
             THEN [ raised |-> FALSE, exc |-> "",
                    ret |-> torch_zeros(ZeroShape(target_shape_dhw)),
                    log |-> warned \o <<LogError(nii_path, "Shape mismatch", "")>> ]
             ELSE IF Len(t.shape) = 0
             THEN Caught(nii_path, target_shape_dhw, "IndexError", warned)
             ELSE IF t.shape[1] # 1
             THEN [ raised |-> FALSE, exc |-> "",
                    ret |-> torch_zeros(ZeroShape(target_shape_dhw)),
                    log |-> warned \o <<LogError(nii_path, "Shape mismatch", "")>> ]
             ELSE [ raised |-> FALSE, exc |-> "", ret |-> t, log |-> warned ]

(***************************************************************************)
(* models/vit3d.py: configuration and construction                         *)
(***************************************************************************)
KwargKeys ==
    { "volume_size", "patch_size", "in_channels", "num_classes", "embed_dim",
      "depth", "num_heads", "mlp_ratio", "qkv_bias", "drop_rate",
      "attn_drop_rate", "use_checkpointing" }

\* cubes of edge 16 * a and volumes with one edge of 16 * a, a up to MaxGrid,
\* and three volumes with an edge that 16 does not divide
VolumeSizes ==
    UNION { { <<16 * a, 16 * a, 16 * a>>, <<16 * a, 16, 16>>,
              <<16, 16 * a, 16>>, <<16, 16, 16 * a>> } : a \in 1..MaxGrid }
    \cup { <<33, 32, 32>>, <<8, 16, 16>>, <<16, 16, 24>> }

\* a ratio r is kept as num/den, so that int(dim * r) is a truncation
Ratio(n, d) == [num |-> n, den |-> d]

\* the values a caller passes for each keyword
KwargValues(k) ==
    CASE k = "volume_size" -> VolumeSizes
      [] k = "patch_size" -> { <<16, 16, 16>>, <<8, 16, 16>> }
      [] k = "in_channels" -> { 2 }
      [] k = "num_classes" -> { 2 }
      [] k = "embed_dim" -> { 96 }
      [] k = "depth" -> { 2 }
      [] k = "num_heads" -> { 4, 5 }
      [] k = "mlp_ratio" -> { Ratio(5, 2) }
      [] k = "qkv_bias" -> { FALSE }
      [] k = "drop_rate" -> { 1 }
      [] k = "attn_drop_rate" -> { 1 }
      [] k = "use_checkpointing" -> { TRUE }

EmptyDict == [k \in {} |-> TRUE]

RECURSIVE KwargsOver(_)
KwargsOver(K) ==
    IF K = {} THEN { EmptyDict }
    ELSE LET k == CHOOSE x \in K : TRUE
         IN  { [j \in K |-> IF j = k THEN v ELSE r[j]] :
                 v \in KwargValues(k), r \in KwargsOver(K \ {k}) }

\* the keyword dictionaries of a call: at most MaxKwargs keywords
Kwargs ==
    UNION { KwargsOver(K) : K \in { S \in SUBSET KwargKeys : Cardinality(S) <= MaxKwargs } }

\* dict.get(k, default)
DictGet(d, k, default) == IF k \in DOMAIN d THEN d[k] ELSE default

\* d without the key k
DictWithout(d, k) == [j \in DOMAIN d \ {k} |-> d[j]]

DictUpdateKeepsOld(d, kw) ==
    [k \in DOMAIN d \cup DOMAIN kw |-> IF k \in DOMAIN d THEN d[k] ELSE kw[k]]

\* d.update(kw): the entries of kw replace those of d
DictUpdate(d, kw) ==
    [k \in DOMAIN d \cup DOMAIN kw |-> IF k \in DOMAIN kw THEN kw[k] ELSE d[k]]

\* the defaults of VisionTransformer3D.__init__
CtorDefaults ==
    [ volume_size |-> <<96, 224, 224>>, patch_size |-> <<16, 16, 16>>,
      in_channels |-> 1, num_classes |-> 18, embed_dim |-> 768, depth |-> 12,
      num_heads |-> 12, mlp_ratio |-> Ratio(4, 1), qkv_bias |-> TRUE,
      drop_rate |-> 0, attn_drop_rate |-> 0, use_checkpointing |-> FALSE ]

NPatchesTwoAxes(volume_size, patch_size) ==
    (volume_size[1] \div patch_size[1]) * (volume_size[2] \div patch_size[2])

\* PatchEmbed3D.n_patches
NPatches(volume_size, patch_size) ==
    (volume_size[1] \div patch_size[1]) *
    (volume_size[2] \div patch_size[2]) *
    (volume_size[3] \div patch_size[3])

\* a parameter tensor: the module class that owns it, its shape, the
\* initialisation it carries and how often _init_weights wrote it
Param(name, block, owner, role, shape, init) ==
    [ name |-> name, block |-> block, owner |-> owner, role |-> role,
      shape |-> shape, init |-> init, policy_writes |-> 0 ]

\* nn.Linear(i, o, bias): weight (o, i) and bias (o,), PyTorch's own reset
Linear(name, block, i, o, bias) ==
    <<Param(name, block, "Linear", "weight", <<o, i>>, "torch_default")>>
    \o (IF bias THEN <<Param(name, block, "Linear", "bias", <<o>>, "torch_default")>>
        ELSE <<>>)

\* nn.LayerNorm(dim): scale and bias, created as ones and zeros
LayerNorm(name, block, dim) ==
    << Param(name, block, "LayerNorm", "weight", <<dim>>, "ones"),
       Param(name, block, "LayerNorm", "bias", <<dim>>, "zeros") >>

\* nn.Conv3d(c, e, kernel_size, stride): weight (e, c, kd, kh, kw), bias (e,)
Conv3d(name, block, c, e, kernel_size) ==
    << Param(name, block, "Conv3d", "weight", <<e, c>> \o kernel_size, "torch_default"),
       Param(name, block, "Conv3d", "bias", <<e>>, "torch_default") >>

PatchEmbed3D(volume_size, patch_size, in_channels, embed_dim) ==
    [ volume_size |-> volume_size,
      patch_size |-> patch_size,
      in_channels |-> in_channels,
      embed_dim |-> embed_dim,
      n_patches |-> NPatches(volume_size, patch_size),
      params |-> Conv3d("patch_embed.proj", -1, in_channels, embed_dim, patch_size) ]

\* int(dim * mlp_ratio), and MLP's "hidden_features or in_features"
MlpHidden(dim, mlp_ratio) ==
    LET h == (dim * mlp_ratio.num) \div mlp_ratio.den
    IN  IF h = 0 THEN dim ELSE h

\* the parameters of one TransformerBlock, in registration order
TransformerBlock(i, dim, mlp_ratio, qkv_bias) ==
    LayerNorm("blocks.norm1", i, dim)
    \o Linear("blocks.attn.qkv", i, dim, dim * 3, qkv_bias)
    \o Linear("blocks.attn.proj", i, dim, dim, TRUE)
    \o LayerNorm("blocks.norm2", i, dim)
    \o Linear("blocks.mlp.fc1", i, dim, MlpHidden(dim, mlp_ratio), TRUE)
    \o Linear("blocks.mlp.fc2", i, MlpHidden(dim, mlp_ratio), dim, TRUE)

RECURSIVE Blocks(_, _, _, _)
Blocks(n, dim, mlp_ratio, qkv_bias) ==
    IF n = 0 THEN <<>>
    ELSE Blocks(n - 1, dim, mlp_ratio, qkv_bias)
         \o TransformerBlock(n - 1, dim, mlp_ratio, qkv_bias)

HeadHidden == 256

TruncNormal == "trunc_normal_std_0.02"

\* what _init_weights does to one parameter
InitParam(p) ==
    IF p.owner = "Parameter"
    THEN [p EXCEPT !.init = TruncNormal, !.policy_writes = @ + 1]
    ELSE IF p.owner = "Linear"
    THEN [p EXCEPT !.init = IF p.role = "weight" THEN TruncNormal ELSE "constant_0",
                   !.policy_writes = @ + 1]
    ELSE IF p.owner = "LayerNorm"
    THEN [p EXCEPT !.init = IF p.role = "weight" THEN "constant_1" ELSE "constant_0",
                   !.policy_writes = @ + 1]
    ELSE p

_init_weights(params) == [i \in DOMAIN params |-> InitParam(params[i])]

\* VisionTransformer3D(**kw): the instance after __init__ has returned
VisionTransformer3D(kw) ==
    LET c == DictUpdate(CtorDefaults, kw)
        pe == PatchEmbed3D(c.volume_size, c.patch_size, c.in_channels, c.embed_dim)
        num_patches == pe.n_patches
        created ==
            << Param("cls_token", -1, "Parameter", "data", <<1, 1, c.embed_dim>>, "zeros"),
               Param("pos_embed", -1, "Parameter", "data",
                     <<1, num_patches + 1, c.embed_dim>>, "zeros") >>
            \o pe.params
            \o Blocks(c.depth, c.embed_dim, c.mlp_ratio, c.qkv_bias)
            \o LayerNorm("norm", -1, c.embed_dim)
            \o Linear("head.0", -1, c.embed_dim, HeadHidden, TRUE)
            \o Linear("head.3", -1, HeadHidden, c.num_classes, TRUE)
    IN  [ kind |-> "model",
          num_classes |-> c.num_classes,
          embed_dim |-> c.embed_dim,
          use_checkpointing |-> c.use_checkpointing,
          patch_embed |-> [pe EXCEPT !.params = <<>>],
          pos_embed |-> <<1, num_patches + 1, c.embed_dim>>,
          depth |-> c.depth,
          num_heads |-> c.num_heads,
          mlp_ratio |-> c.mlp_ratio,
          qkv_bias |-> c.qkv_bias,
          drop_rate |-> c.drop_rate,
          attn_drop_rate |-> c.attn_drop_rate,
          training |-> TRUE,
          params |-> _init_weights(created) ]

TinyPreset == [embed_dim |-> 192, depth |-> 12, num_heads |-> 3, mlp_ratio |-> Ratio(4, 1)]
SmallPreset == [embed_dim |-> 384, depth |-> 12, num_heads |-> 6, mlp_ratio |-> Ratio(4, 1)]
BasePresetAsSmall == [embed_dim |-> 384, depth |-> 12, num_heads |-> 12, mlp_ratio |-> Ratio(4, 1)]
BasePreset == [embed_dim |-> 768, depth |-> 12, num_heads |-> 12, mlp_ratio |-> Ratio(4, 1)]
LargePreset == [embed_dim |-> 1024, depth |-> 24, num_heads |-> 16, mlp_ratio |-> Ratio(4, 1)]

\* the body shared by the four factories: the named arguments num_classes
\* and use_checkpointing, the preset, then model_kwargs.update(kwargs)
Factory(preset, call) ==
    LET num_classes == DictGet(call, "num_classes", 18)
        use_checkpointing == DictGet(call, "use_checkpointing", FALSE)
        kwargs == DictWithout(DictWithout(call, "num_classes"), "use_checkpointing")
        model_kwargs ==
            DictUpdate(preset, [num_classes |-> num_classes,
                                use_checkpointing |-> use_checkpointing])
    IN  VisionTransformer3D(DictUpdate(model_kwargs, kwargs))

vit_tiny_3d(call) == Factory(TinyPreset, call)
vit_small_3d(call) == Factory(SmallPreset, call)
vit_base_3d(call) == Factory(BasePreset, call)
vit_large_3d(call) == Factory(LargePreset, call)

(***************************************************************************)
(* models/vit3d.py: the forward pass, on shapes                            *)
(***************************************************************************)
Batches == {1, 2, 8}
InputChannels == {1, 2}
\* the input tensors of a forward call, (B, C, D, H, W)
InputShapes ==
    { <<b, c>> \o v : b \in Batches, c \in InputChannels, v \in VolumeSizes }

Raise(what) == [ok |-> FALSE, shape |-> <<>>, error |-> what]
Value(shape) == [ok |-> TRUE, shape |-> shape, error |-> ""]

\* output extent of a convolution with kernel = stride = k and no padding
ConvOut(n, k) == (n - k) \div k + 1

\* PatchEmbed3D.forward: the strided Conv3d, then 'b e d h w -> b (d h w) e'
PatchEmbed3D_forward(pe, x) ==
    IF x[2] # pe.in_channels
    THEN Raise("conv3d: channel mismatch")
    ELSE IF \E i \in 1..3 : x[2 + i] < pe.patch_size[i]
    THEN Raise("conv3d: kernel larger than input")
    ELSE Value(<< x[1],
                  ConvOut(x[3], pe.patch_size[1]) * ConvOut(x[4], pe.patch_size[2])
                      * ConvOut(x[5], pe.patch_size[3]),
                  pe.embed_dim >>)

\* the (D', H', W') grid of patches the convolution makes of an input
PatchGrid(pe, x) ==
    << ConvOut(x[3], pe.patch_size[1]), ConvOut(x[4], pe.patch_size[2]),
       ConvOut(x[5], pe.patch_size[3]) >>

\* einops '(d h w)': the grid coordinate at index k of the merged axis,
\* d slowest and w fastest
Unflatten(k, grid) ==
    << k \div (grid[2] * grid[3]), (k \div grid[3]) % grid[2], k % grid[3] >>

\* the sequence after torch.cat((cls_tokens, x), dim=1): the class token,
\* then the patches in the order of the merged axis
TokenSources(grid) ==
    <<[kind |-> "cls", coord |-> <<>>]>>
    \o [k \in 1..SeqProduct(grid) |-> [kind |-> "patch", coord |-> Unflatten(k - 1, grid)]]

\* the table row that x + self.pos_embed adds at position p: row p, or the
\* single row of a one-row table, which broadcasts
PosRow(p, rows) == IF rows = 1 THEN 0 ELSE p

\* the token sequence handed to the blocks: where each token comes from and
\* the row of the positional table it received
Tokens(m, x) ==
    LET src == TokenSources(PatchGrid(m.patch_embed, x))
    IN  [i \in DOMAIN src |->
            [kind |-> src[i].kind, coord |-> src[i].coord,
             row |-> PosRow(i - 1, m.pos_embed[2])]]

\* x + self.pos_embed on (B, n, E) and (1, rows, E): broadcasting stretches
\* an axis of extent 1 and rejects any other difference
AddPosEmbed(xs, pos) ==
    IF xs[2] = pos[2] \/ pos[2] = 1 \/ xs[2] = 1
    THEN Value(<< xs[1], IF xs[2] >= pos[2] THEN xs[2] ELSE pos[2], xs[3] >>)
    ELSE Raise("add: sizes of tensors must match")

\* MultiHeadAttention3D.forward: the reshape to (B, N, 3, heads, head_dim)
\* needs heads * (dim // heads) = dim
Attention(m, xs) ==
    IF m.num_heads * (m.embed_dim \div m.num_heads) = m.embed_dim
    THEN Value(xs)
    ELSE Raise("reshape: invalid shape")

\* TransformerBlock.forward on the loop variable x = [res, applied]: the
\* attention reshape decides whether the block returns, and the value that
\* comes out is the value that went in with block i applied on top
BlockForward(m, i, x) ==
    [res |-> Attention(m, x.res.shape), applied |-> Append(x.applied, i)]

\* torch.utils.checkpoint.checkpoint(block, x): in the forward pass the
\* wrapper runs block(x) once and hands back what it returns
checkpoint(m, i, x) == BlockForward(m, i, x)

\* the note of one forward call of block i: the value it was given
BlockCall(i, via, x) == [block |-> i, via |-> via, input |-> x.applied]

CheckpointedStepDropsResult(m, i, st) ==
    LET y == checkpoint(m, i, st.x)
    IN  [ x |-> IF y.res.ok THEN st.x ELSE y,
          calls |-> Append(st.calls, BlockCall(i, "checkpoint", st.x)) ]

\* line 215, x = torch.utils.checkpoint.checkpoint(block, x)
CheckpointedStep(m, i, st) ==
    [ x |-> checkpoint(m, i, st.x),
      calls |-> Append(st.calls, BlockCall(i, "checkpoint", st.x)) ]

\* line 218, x = block(x)
DirectStep(m, i, st) ==
    [ x |-> BlockForward(m, i, st.x),
      calls |-> Append(st.calls, BlockCall(i, "direct", st.x)) ]

\* 'for block in self.blocks' of lines 214 and 217: the first n blocks in
\* index order, each step on the loop variable the step before left; a
\* block that raises ends the loop
RECURSIVE RunBlocks(_, _, _, _)
RunBlocks(m, n, st, via) ==
    IF n = 0 THEN st
    ELSE LET before == RunBlocks(m, n - 1, st, via)
         IN  IF ~before.x.res.ok THEN before
             ELSE IF via = "checkpoint" THEN CheckpointedStep(m, n - 1, before)
             ELSE DirectStep(m, n - 1, before)

\* the condition of line 213
UsesCheckpoint(m, training) == m.use_checkpointing /\ training

forward_features(m, x) ==
    LET embedded == PatchEmbed3D_forward(m.patch_embed, x)
        withcls == << embedded.shape[1], embedded.shape[2] + 1, embedded.shape[3] >>
        added == AddPosEmbed(withcls, m.pos_embed)
        via == IF UsesCheckpoint(m, m.training) THEN "checkpoint" ELSE "direct"
        run == RunBlocks(m, m.depth, [x |-> [res |-> added, applied |-> <<>>], calls |-> <<>>], via)
    IN  IF ~embedded.ok
        THEN [res |-> embedded, seq_len |-> 0, calls |-> <<>>, token |-> -1, tokens |-> <<>>,
              applied |-> <<>>]
        ELSE IF ~added.ok
        THEN [res |-> added, seq_len |-> withcls[2], calls |-> <<>>, token |-> -1,
              tokens |-> <<>>, applied |-> <<>>]
        ELSE IF ~run.x.res.ok
        THEN [res |-> run.x.res, seq_len |-> withcls[2], calls |-> run.calls, token |-> -1,
              tokens |-> Tokens(m, x), applied |-> run.x.applied]
        ELSE [ res |-> Value(<< run.x.res.shape[1], run.x.res.shape[3] >>),
               seq_len |-> run.x.res.shape[2], calls |-> run.calls, token |-> 0,
               tokens |-> Tokens(m, x), applied |-> run.x.applied ]

\* nn.Linear(i, o) on (..., i)
LinearApply(xs, i, o) ==
    IF xs[Len(xs)] = i THEN Value(SubSeq(xs, 1, Len(xs) - 1) \o <<o>>)
    ELSE Raise("linear: shapes cannot be multiplied")

forward_without_head(m, x) == forward_features(m, x)

forward(m, x) ==
    LET f == forward_features(m, x)
        h1 == LinearApply(f.res.shape, m.embed_dim, HeadHidden)
        h2 == LinearApply(h1.shape, HeadHidden, m.num_classes)
    IN  IF ~f.res.ok THEN f
        ELSE IF ~h1.ok THEN [f EXCEPT !.res = h1]
        ELSE [f EXCEPT !.res = h2]

(***************************************************************************)
(* Actions of the preprocessing boundary.                                  *)
(***************************************************************************)
Init ==
    /\ pipeline = NoPipeline
    /\ pre = NoCall
    /\ model = NoModel
    /\ fwd = NoCall
    /\ voxel = NoCall
    /\ workers = [w \in 1..MaxWorkers |-> NoCall]
    /\ dump = NoCall
    /\ ds = NoCall
    /\ saved = NoSaves

CreatePipeline ==
    /\ pipeline = NoPipeline
    /\ \E ts \in PipelineTargets, cr \in ClipRanges, sp \in SavePaths :
          pipeline' = create_monai_preprocessing_pipeline(ts, cr.min, cr.max, sp)
    /\ UNCHANGED <<pre, model, fwd, others>>

\* one call of preprocess_ct_volume_monai on one file of a batch: the run
\* of the pipeline, with what its persistence step leaves in the output
\* directory, and the handling of the outcome; no new call starts once the
\* persistence step has counted MaxSaves calls
Preprocess ==
    /\ pipeline # NoPipeline
    /\ pre = NoCall
    /\ saved.data_index < MaxSaves
    /\ \E p \in NiiPaths, ts \in TargetShapes :
         \E e \in Envs(p) :
            LET c == Compose(pipeline, e)
            IN  /\ pre' = [ kind |-> "call", nii_path |-> p, target |-> ts, env |-> e,
                            chain |-> c, out |-> preprocess_ct_volume_monai(p, c, ts) ]
                /\ saved' = Persisted(pipeline, p, c, saved)
    /\ UNCHANGED <<pipeline, model, fwd, voxel, workers, dump, ds>>

\* the call returns its tensor and the caller goes on to the next file;
\* a call that raised instead ends the caller's loop
PreprocessReturn ==
    /\ pre # NoCall
    /\ ~pre.out.raised
    /\ pre' = NoCall
    /\ UNCHANGED <<pipeline, model, fwd, others>>

(***************************************************************************)
(* Actions of the model: one instance is built, switched between training  *)
(* and evaluation mode, and called.                                        *)
(***************************************************************************)
Built(factory, call, m) ==
    [m EXCEPT !.kind = "model"] @@ [factory |-> factory, call |-> call]

Construct ==
    /\ model = NoModel
    /\ \E kw \in Kwargs : model' = Built("VisionTransformer3D", kw, VisionTransformer3D(kw))
    /\ UNCHANGED <<pipeline, pre, fwd, others>>

ConstructTiny ==
    /\ model = NoModel
    /\ \E kw \in Kwargs : model' = Built("vit_tiny_3d", kw, vit_tiny_3d(kw))
    /\ UNCHANGED <<pipeline, pre, fwd, others>>

ConstructSmall ==
    /\ model = NoModel
    /\ \E kw \in Kwargs : model' = Built("vit_small_3d", kw, vit_small_3d(kw))
    /\ UNCHANGED <<pipeline, pre, fwd, others>>

ConstructBase ==
    /\ model = NoModel
    /\ \E kw \in Kwargs : model' = Built("vit_base_3d", kw, vit_base_3d(kw))
    /\ UNCHANGED <<pipeline, pre, fwd, others>>

ConstructLarge ==
    /\ model = NoModel
    /\ \E kw \in Kwargs : model' = Built("vit_large_3d", kw, vit_large_3d(kw))
    /\ UNCHANGED <<pipeline, pre, fwd, others>>

\* model.train() / model.eval(): the flag self.training read by line 213
SetTraining ==
    /\ model # NoModel
    /\ fwd = NoCall
    /\ model' = [model EXCEPT !.training = ~model.training]
    /\ UNCHANGED <<pipeline, pre, fwd, others>>

\* model(x), with gradient tracking enabled or disabled by the caller
Forward ==
    /\ model # NoModel
    /\ fwd = NoCall
    /\ \E x \in InputShapes, grad \in BOOLEAN :
          fwd' = [ kind |-> "call", x |-> x, grad_enabled |-> grad,
                   pos_embed_before |-> model.pos_embed,
                   out |-> forward(model, x) ]
    /\ UNCHANGED <<pipeline, pre, model, others>>

\* the call hands its logits back; a call that raised ends the caller
ForwardReturn ==
    /\ fwd # NoCall
    /\ fwd.out.res.ok
    /\ fwd' = NoCall
    /\ UNCHANGED <<pipeline, pre, model, others>>

NextModel ==
    \/ Construct \/ ConstructTiny \/ ConstructSmall \/ ConstructBase \/ ConstructLarge
    \/ SetTraining \/ Forward \/ ForwardReturn

SpecModel == Init /\ [][NextModel]_vars

NextPreprocess == CreatePipeline \/ Preprocess \/ PreprocessReturn

SpecPreprocess == Init /\ [][NextPreprocess]_vars

(***************************************************************************)
(* Properties of the preprocessing boundary.                               *)
(***************************************************************************)
\* the chain, or the handling of its result, threw
ChainThrew ==
    \/ pre.chain.kind \in {"exception", "no_image_key", "plain_object"}
    \/ /\ pre.chain.kind = "ndarray"
       /\ \/ Len(pre.chain.shape) = 3
          \/ Len(pre.chain.shape) = 4 /\ pre.chain.shape[1] > 1

\* the exception type the except clause sees
ThrownType ==
    IF pre.chain.kind = "exception" THEN pre.chain.exc
    ELSE IF pre.chain.kind = "no_image_key" THEN "KeyError"
    ELSE "AttributeError"

\* the shape of the chain's tensor after the channel fix-up, written out
FixedShape ==
    LET s == pre.chain.shape
    IN  IF Len(s) = 3 THEN <<1>> \o s
        ELSE IF Len(s) = 4 /\ s[1] > 1 THEN <<1>> \o Tail(s)
        ELSE s

\* whether the chain's tensor is free of NaN/Inf after the channel fix-up:
\* of a 4-D tensor with several channels only channel 0 is left
FixedFinite ==
    LET s == pre.chain.shape
    IN  IF Len(s) = 4 /\ s[1] > 1 THEN pre.chain.finite0 ELSE pre.chain.finite

\* C1: a call never raises to its caller; when the transform chain or the
\* handling of its result throws, the call logs an error that names the file
\* path and the exception type and returns the all-zero tensor of shape
\* (1, *target_shape_dhw), and the caller can go on to the next file.
C1_FailSoft ==
    pre.kind = "call" =>
        /\ ~pre.out.raised
        /\ ChainThrew =>
              /\ pre.out.ret = torch_zeros(<<1>> \o pre.target.dims)
              /\ \E i \in DOMAIN pre.out.log :
                    /\ pre.out.log[i].level = "error"
                    /\ pre.out.log[i].path = pre.nii_path
                    /\ pre.out.log[i].exc = ThrownType
              /\ ENABLED PreprocessReturn

C1_Witness ==
    /\ pre.kind = "call"
    /\ pre.nii_path = "missing.nii.gz"
    /\ pre.chain.kind = "exception"
    /\ pre.out.ret.data = "zeros"
    /\ Len(pre.out.log) = 1

\* C2: the tensor a call returns always has shape (1, *target_shape_dhw);
\* when the chain's tensor, after the channel fix-up, has another spatial
\* shape or another channel count, the call logs the discrepancy as an error
\* and returns the all-zero tensor instead, without raising.
C2_ShapePostcondition ==
    pre.kind = "call" =>
        /\ pre.out.ret.shape = <<1>> \o pre.target.dims
        /\ (pre.chain.kind = "tensor" /\ FixedShape # <<1>> \o pre.target.dims) =>
              /\ ~pre.out.raised
              /\ pre.out.ret.data = "zeros"
              /\ \E i \in DOMAIN pre.out.log :
                    /\ pre.out.log[i].level = "error"
                    /\ pre.out.log[i].msg = "Shape mismatch"
                    /\ pre.out.log[i].path = pre.nii_path

C2_Witness ==
    /\ pre.kind = "call"
    /\ pre.chain.kind = "tensor"
    /\ Len(pre.chain.shape) = 4
    /\ pre.chain.shape[1] = 2
    /\ Tail(pre.chain.shape) # pre.target.dims
    /\ pre.target.form = "tuple"
    /\ pre.out.ret = torch_zeros(<<1>> \o pre.target.dims)
    /\ Len(pre.out.log) = 2

(***************************************************************************)
(* Properties of the model.                                                *)
(***************************************************************************)
\* every volume edge is a multiple of the matching patch edge
Divisible(m) ==
    \A i \in 1..3 : m.patch_embed.volume_size[i] % m.patch_embed.patch_size[i] = 0

\* the input of the current call has the channels and the volume of the
\* configuration
InputMatches ==
    /\ fwd.x[2] = model.patch_embed.in_channels
    /\ <<fwd.x[3], fwd.x[4], fwd.x[5]>> = model.patch_embed.volume_size

\* C3: no model instance exists for a volume_size with an edge that the
\* matching patch_size edge does not divide (construction aborts instead).
C3_NonDivisibleRejected ==
    model # NoModel => Divisible(model)

\* C4: when every volume edge is a multiple of its patch edge, n_patches is
\* (D/pd)*(H/ph)*(W/pw), the positional-embedding table has n_patches + 1
\* rows, and the token sequence of a forward call on a volume of the
\* configured size has length n_patches + 1.
C4_PatchCount ==
    (model # NoModel /\ Divisible(model)) =>
        LET pe == model.patch_embed
        IN  /\ pe.n_patches * SeqProduct(pe.patch_size) = SeqProduct(pe.volume_size)
            /\ model.pos_embed[2] = pe.n_patches + 1
            /\ model.params[2].name = "pos_embed"
            /\ model.params[2].shape[2] = pe.n_patches + 1
            /\ (fwd.kind = "call" /\ InputMatches) => fwd.out.seq_len = pe.n_patches + 1

C4_Witness ==
    /\ model # NoModel
    /\ model.patch_embed.volume_size = <<32, 32, 32>>
    /\ model.patch_embed.patch_size = <<16, 16, 16>>
    /\ model.patch_embed.n_patches = 8
    /\ fwd.kind = "call"
    /\ InputMatches
    /\ fwd.out.res.ok
    /\ fwd.out.seq_len = 9

\* the patch count an input volume yields under the model's patch size
InputPatchCount ==
    (fwd.x[3] \div model.patch_embed.patch_size[1]) *
    (fwd.x[4] \div model.patch_embed.patch_size[2]) *
    (fwd.x[5] \div model.patch_embed.patch_size[3])

\* C5: a forward call on a volume that yields another patch count than the
\* n_patches fixed at construction raises and returns no logits, and no
\* forward call changes the size of the positional-embedding table.
C5_SequenceLengthFixed ==
    (model # NoModel /\ fwd.kind = "call") =>
        /\ InputPatchCount # model.patch_embed.n_patches => ~fwd.out.res.ok
        /\ model.pos_embed = fwd.pos_embed_before

\* the attention heads split the embedding width evenly
HeadsDivide(m) == m.embed_dim % m.num_heads = 0

\* C6: every forward call that returns, returns one logit vector per batch
\* element, shape (B, num_classes), read from token position 0; and for a
\* configuration whose patches tile the volume and whose heads split the
\* embedding width, a call on an input of the configured channels and
\* volume returns, for every batch size.
C6_BatchShape ==
    (model # NoModel /\ fwd.kind = "call") =>
        /\ fwd.out.res.ok =>
              /\ fwd.out.res.shape = <<fwd.x[1], model.num_classes>>
              /\ fwd.out.token = 0
        /\ (InputMatches /\ Divisible(model) /\ HeadsDivide(model)) => fwd.out.res.ok

C6_Witness ==
    /\ model # NoModel
    /\ fwd.kind = "call"
    /\ InputMatches
    /\ fwd.x[1] = 8
    /\ fwd.out.res.ok
    /\ fwd.out.res.shape = <<8, 18>>

FactoryNames == {"vit_tiny_3d", "vit_small_3d", "vit_base_3d", "vit_large_3d"}
PresetKeys == {"embed_dim", "depth", "num_heads", "mlp_ratio"}

\* the preset table of the specification
PresetTable(f) ==
    CASE f = "vit_tiny_3d" -> [embed_dim |-> 192, depth |-> 12, num_heads |-> 3, mlp_ratio |-> Ratio(4, 1)]
      [] f = "vit_small_3d" -> [embed_dim |-> 384, depth |-> 12, num_heads |-> 6, mlp_ratio |-> Ratio(4, 1)]
      [] f = "vit_base_3d" -> [embed_dim |-> 768, depth |-> 12, num_heads |-> 12, mlp_ratio |-> Ratio(4, 1)]
      [] f = "vit_large_3d" -> [embed_dim |-> 1024, depth |-> 24, num_heads |-> 16, mlp_ratio |-> Ratio(4, 1)]

\* the value of constructor argument k that the instance was built with
UsedValue(m, k) ==
    CASE k = "volume_size" -> m.patch_embed.volume_size
      [] k = "patch_size" -> m.patch_embed.patch_size
      [] k = "in_channels" -> m.patch_embed.in_channels
      [] k = "num_classes" -> m.num_classes
      [] k = "embed_dim" -> m.embed_dim
      [] k = "depth" -> m.depth
      [] k = "num_heads" -> m.num_heads
      [] k = "mlp_ratio" -> m.mlp_ratio
      [] k = "qkv_bias" -> m.qkv_bias
      [] k = "drop_rate" -> m.drop_rate
      [] k = "attn_drop_rate" -> m.attn_drop_rate
      [] k = "use_checkpointing" -> m.use_checkpointing

\* C7: a model built by a named factory has the (embed_dim, depth,
\* num_heads, mlp_ratio) of that factory's preset, except that every
\* argument the caller passed has the caller's value.
C7_PresetOverride ==
    (model # NoModel /\ model.factory \in FactoryNames) =>
        /\ \A k \in DOMAIN model.call : UsedValue(model, k) = model.call[k]
        /\ \A k \in PresetKeys \ DOMAIN model.call :
              UsedValue(model, k) = PresetTable(model.factory)[k]

C7_Witness ==
    /\ model # NoModel
    /\ model.factory = "vit_small_3d"
    /\ DOMAIN model.call = {"embed_dim", "num_classes"}
    /\ model.embed_dim = 96
    /\ model.num_classes = 2
    /\ model.depth = 12
    /\ model.num_heads = 6

\* the number of elements of all parameter tensors of an instance
RECURSIVE SumNumel(_, _, _)
SumNumel(params, lo, hi) ==
    IF lo > hi THEN 0
    ELSE IF lo = hi THEN SeqProduct(params[lo].shape)
    ELSE LET mid == (lo + hi) \div 2
         IN  SumNumel(params, lo, mid) + SumNumel(params, mid + 1, hi)

ParamCount(m) == SumNumel(m.params, 1, Len(m.params))

\* the model the next larger factory builds from the same call
NextLarger(f, call) ==
    CASE f = "vit_tiny_3d" -> vit_small_3d(call)
      [] f = "vit_small_3d" -> vit_base_3d(call)
      [] f = "vit_base_3d" -> vit_large_3d(call)

\* C8: for the same call, one that leaves the preset's own four arguments
\* alone, each factory's model has strictly fewer parameters than the model
\* of the next larger factory: tiny < small < base < large.
C8_ParamCountOrder ==
    ( /\ model # NoModel
      /\ fwd = NoCall
      /\ model.training
      /\ model.factory \in FactoryNames \ {"vit_large_3d"}
      /\ DOMAIN model.call \cap PresetKeys = {} ) =>
        ParamCount(model) < ParamCount(NextLarger(model.factory, model.call))

C8_Witness ==
    /\ model # NoModel
    /\ fwd = NoCall
    /\ model.factory = "vit_base_3d"
    /\ DOMAIN model.call = {"num_classes", "volume_size"}
    /\ model.patch_embed.volume_size = <<32, 32, 32>>
    /\ ParamCount(model) > ParamCount(vit_small_3d(model.call))
    /\ ParamCount(model) < ParamCount(vit_large_3d(model.call))

\* the initialisation the policy prescribes for a parameter
PolicyInit(p) ==
    IF p.owner = "LayerNorm"
    THEN (IF p.role = "weight" THEN "constant_1" ELSE "constant_0")
    ELSE IF p.role = "bias" THEN "constant_0"
    ELSE TruncNormal

\* C9: after construction every parameter was written by the initialisation
\* policy exactly once and carries the policy's value: truncated normal
\* (std 0.02) for the aggregate token, the positional table and every
\* projection weight, zero for every projection bias, one and zero for the
\* scale and bias of every normalisation layer.
C9_AllParamsInitialised ==
    model # NoModel =>
        \A i \in DOMAIN model.params :
            /\ model.params[i].policy_writes = 1
            /\ model.params[i].init = PolicyInit(model.params[i])

\* C10: the encoder blocks of a call go through the checkpoint wrapper only
\* if the model's flag is set and gradients are tracked for that call; a
\* call in evaluation mode or with gradient tracking disabled invokes every
\* block directly.
C10_CheckpointOnlyWithGrad ==
    (model # NoModel /\ fwd.kind = "call") =>
        /\ \A i \in DOMAIN fwd.out.calls :
              fwd.out.calls[i].via = "checkpoint" =>
                  (model.use_checkpointing /\ fwd.grad_enabled)
        /\ (~model.training \/ ~fwd.grad_enabled) =>
              \A i \in DOMAIN fwd.out.calls : fwd.out.calls[i].via = "direct"

(***************************************************************************)
(* Persistence step and numeric anomalies                                  *)
(***************************************************************************)

\* the configuration of the current pipeline with no persistence destination
WithoutDestination(p) ==
    create_monai_preprocessing_pipeline([form |-> "tuple", dims |-> p.spatial_size],
                                        p.a_min, p.a_max, "None")

\* what the recorded invocation returns when its pipeline is replaced by p,
\* the file, the storage and the target staying as they are
ReturnedWith(p) ==
    preprocess_ct_volume_monai(pre.nii_path, Compose(p, pre.env), pre.target).ret

\* C11: an invocation whose pipeline has the persistence step returns the
\* tensor that the same invocation returns with no destination configured,
\* whatever the outcome of the write.
C11_PersistenceKeepsValue ==
    (pre # NoCall /\ pipeline.save_dir # "None")
        => pre.out.ret = ReturnedWith(WithoutDestination(pipeline))

\* C12: every failure of the preprocessing of a file ends in the zero
\* substitute; in particular a chain result of the target shape that holds
\* NaN/Inf values is replaced by the all-zero tensor of shape
\* (1, *target_shape_dhw) and is not returned.
C12_AnomalyZeroed ==
    pre.kind = "call" =>
        /\ ChainThrew => pre.out.ret = torch_zeros(ZeroShape(pre.target))
        /\ (pre.chain.kind = "tensor" /\ ~FixedFinite
               /\ FixedShape = ZeroShape(pre.target))
             => /\ pre.out.ret = torch_zeros(ZeroShape(pre.target))
                /\ pre.out.ret.finite

(***************************************************************************)
(* The intensity step.  Intensities are exact fractions num/den, den > 0.  *)
(***************************************************************************)
Frac(n, d) == [num |-> n, den |-> d]
FracLe(a, b) == a.num * b.den <= b.num * a.den
FracEq(a, b) == a.num * b.den = b.num * a.den

\* raw voxel values: a grid over and around the clip ranges
Voxels == { 100 * k - 1600 : k \in 0..22 } \cup {0, 40, 80}

\* the images the step is applied to: MaxDim voxels in a row
Images == [1..MaxDim -> Voxels]

\* monai.transforms.ScaleIntensityRange on one voxel, a_min < a_max:
\* (v - a_min) / (a_max - a_min), moved to [b_min, b_max], and with clip
\* cut off at b_min and b_max
ScaleIntensityRange(v, a_min, a_max, b_min, b_max, clip) ==
    LET den == a_max - a_min
        num == (v - a_min) * (b_max - b_min) + b_min * den
    IN  IF clip /\ num < b_min * den THEN Frac(b_min * den, den)
        ELSE IF clip /\ num > b_max * den THEN Frac(b_max * den, den)
        ELSE Frac(num, den)

IntensityStepUnclipped(p, v) ==
    ScaleIntensityRange(v, p.a_min, p.a_max, p.b_min, p.b_max, FALSE)

\* the ScaleIntensityRanged step as the pipeline configures it
IntensityStep(p, v) ==
    ScaleIntensityRange(v, p.a_min, p.a_max, p.b_min, p.b_max, p.clip)

\* the step applied to every voxel of an image
ScaleIntensityRanged(p, img) == [i \in DOMAIN img |-> IntensityStep(p, img[i])]

\* the intensity step of the pipeline runs on an image
ApplyIntensity ==
    /\ pipeline # NoPipeline
    /\ pre = NoCall
    /\ voxel = NoCall
    /\ \E img \in Images :
          voxel' = [kind |-> "image", img |-> img, out |-> ScaleIntensityRanged(pipeline, img)]
    /\ UNCHANGED <<pipeline, pre, model, fwd, workers, dump, ds, saved>>

\* the scaled image is handed to the next step
IntensityReturn ==
    /\ voxel # NoCall
    /\ voxel' = NoCall
    /\ UNCHANGED <<pipeline, pre, model, fwd, workers, dump, ds, saved>>

NextIntensity == CreatePipeline \/ ApplyIntensity \/ IntensityReturn

SpecIntensity == Init /\ [][NextIntensity]_vars

Clamp(v, lo, hi) == IF v < lo THEN lo ELSE IF v > hi THEN hi ELSE v

\* C13: with clip bounds min < max the intensity step maps a voxel v to
\* (clamp(v, min, max) - min) / (max - min): voxels at or below min map to 0,
\* voxels at or above max map to 1, the values in between map linearly and
\* monotonically into [0, 1].
C13_ClipRescale ==
    voxel.kind = "image" =>
        LET lo == pipeline.a_min
            hi == pipeline.a_max
        IN  /\ lo < hi
            /\ \A i \in DOMAIN voxel.img :
                  LET v == voxel.img[i]
                      r == voxel.out[i]
                  IN  /\ r.den > 0
                      /\ FracEq(r, Frac(Clamp(v, lo, hi) - lo, hi - lo))
                      /\ v <= lo => r.num = 0
                      /\ v >= hi => FracEq(r, Frac(1, 1))
                      /\ FracLe(Frac(0, 1), r) /\ FracLe(r, Frac(1, 1))
            /\ \A i, j \in DOMAIN voxel.img :
                  voxel.img[i] <= voxel.img[j] => FracLe(voxel.out[i], voxel.out[j])

C13_Witness ==
    /\ voxel.kind = "image"
    /\ pipeline.a_min = -1000 /\ pipeline.a_max = 400
    /\ voxel.img[1] = -1600 /\ voxel.img[2] = 400
    /\ voxel.out[1].num = 0
    /\ FracEq(voxel.out[2], Frac(1, 1))

(***************************************************************************)
(* Concurrent workers: each runs preprocess_ct_volume_monai on a file of   *)
(* its own, all with the one pipeline object.                              *)
(***************************************************************************)
Workers == 1..MaxWorkers

WorkerFiles == NiiPaths \cup {"scan_b.nii.gz", "scan_c.nii.gz"}

\* what the file behind each path and the storage make of a run: scan_a is
\* a volume the steps bring to the configured size, scan_b a volume that
\* comes out with two channels and its metadata, scan_c a volume whose
\* write to the output directory fails, missing does not exist
WorkerEnv(p, nii_path) ==
    IF nii_path = "scan_a.nii.gz"
    THEN [fail_at |-> "none", exc |-> "", kind |-> "tensor",
          shape |-> <<1>> \o p.spatial_size, meta |-> FALSE, finite |-> TRUE, finite0 |-> TRUE]
    ELSE IF nii_path = "scan_b.nii.gz"
    THEN [fail_at |-> "none", exc |-> "", kind |-> "tensor",
          shape |-> <<2>> \o p.spatial_size, meta |-> TRUE, finite |-> TRUE, finite0 |-> TRUE]
    ELSE IF nii_path = "scan_c.nii.gz"
    THEN [fail_at |-> "SaveImaged", exc |-> "OSError", kind |-> "tensor",
          shape |-> <<1>> \o p.spatial_size, meta |-> FALSE, finite |-> TRUE, finite0 |-> TRUE]
    ELSE [fail_at |-> "LoadImaged", exc |-> "FileNotFoundError", kind |-> "none",
          shape |-> <<>>, meta |-> FALSE, finite |-> TRUE, finite0 |-> TRUE]

\* the targets the workers of one pass pass on: the configured size
WorkerTargets(p) == { [form |-> f, dims |-> p.spatial_size] : f \in TargetForms }

\* the files other workers are busy with
Busy(ws, w) == { ws[v].nii_path : v \in { u \in DOMAIN ws : u # w /\ ws[u] # NoCall } }

DataDictShared(ws, w) ==
    LET active == { u \in DOMAIN ws : ws[u] # NoCall }
    IN  ws[CHOOSE u \in active : \A v \in active : u <= v].data_dict

\* data_dict is a local of the invocation: each worker reads its own
DataDict(ws, w) == ws[w].data_dict

\* the file a step of the run works on: the path for LoadImaged, after
\* that the file the array was read from
StepSource(name, d) == IF name = "LoadImaged" THEN d.image ELSE d.filename

\* the run ends with the exception of step k
StepRaises(k, exc) ==
    [ kind |-> "exception", step |-> k, exc |-> exc, shape |-> <<>>, meta |-> FALSE,
      finite |-> TRUE, finite0 |-> TRUE ]

\* the run ends after its last step with the "image" entry it produced
StepsProduce(env) ==
    [ kind |-> env.kind, step |-> 0, exc |-> "", shape |-> env.shape, meta |-> env.meta,
      finite |-> env.finite, finite0 |-> env.finite0 ]

\* line 113: a worker enters preprocess_ct_volume_monai and builds its
\* data_dict; no new invocation starts once the persistence step has
\* counted MaxSaves calls
WorkerStart(w) ==
    /\ pipeline # NoPipeline
    /\ workers[w] = NoCall
    /\ saved.data_index < MaxSaves
    /\ \E p \in WorkerFiles \ Busy(workers, w), ts \in WorkerTargets(pipeline) :
          workers' = [workers EXCEPT ![w] =
                        [ kind |-> "invocation", pc |-> "call", nii_path |-> p,
                          target |-> ts, data_dict |-> [image |-> p],
                          d |-> NoCall, at |-> 0, idx |-> 0,
                          processed |-> NoCall, out |-> NoCall ]]
    /\ UNCHANGED <<pipeline, pre, model, fwd, voxel, dump, ds, saved>>

\* line 115: the worker calls the shared pipeline with its data_dict
WorkerCall(w) ==
    /\ workers[w] # NoCall
    /\ workers[w].pc = "call"
    /\ workers' = [workers EXCEPT ![w].pc = "chain", ![w].at = 1,
                      ![w].d = ComposeInput(DataDict(workers, w))]
    /\ UNCHANGED <<pipeline, pre, model, fwd, voxel, dump, ds, saved>>

\* one step of the run other than the persistence step, on the dict of the
\* worker's own run: it throws, or hands the dict on to the next step, or,
\* as the last step, completes the run
WorkerTransform(w) ==
    /\ workers[w] # NoCall
    /\ workers[w].pc = "chain"
    /\ pipeline.transforms[workers[w].at] # "SaveImaged"
    /\ LET k == workers[w].at
           name == pipeline.transforms[k]
           d == workers[w].d
           env == WorkerEnv(pipeline, StepSource(name, d))
       IN  workers' =
              IF env.fail_at = name
              THEN [workers EXCEPT ![w].pc = "post", ![w].processed = StepRaises(k, env.exc)]
              ELSE IF k = Len(pipeline.transforms)
              THEN [workers EXCEPT ![w].pc = "post", ![w].processed = StepsProduce(env)]
              ELSE [workers EXCEPT ![w].at = k + 1,
                                   ![w].d = IF name = "LoadImaged" THEN Loaded(d) ELSE d]
    /\ UNCHANGED <<pipeline, pre, model, fwd, voxel, dump, ds, saved>>

\* the persistence step of the shared pipeline: it throws when the write
\* fails, otherwise the file is in the output directory and the step has
\* read its call count
WorkerSave(w) ==
    /\ workers[w] # NoCall
    /\ workers[w].pc = "chain"
    /\ pipeline.transforms[workers[w].at] = "SaveImaged"
    /\ LET k == workers[w].at
           d == workers[w].d
           env == WorkerEnv(pipeline, StepSource("SaveImaged", d))
       IN  IF env.fail_at = "SaveImaged"
           THEN /\ workers' = [workers EXCEPT ![w].pc = "post",
                                  ![w].processed = StepRaises(k, env.exc)]
                /\ saved' = saved
           ELSE /\ workers' = [workers EXCEPT ![w].pc = "count",
                                  ![w].idx = saved.data_index]
                /\ saved' = [saved EXCEPT
                               !.files = @ \cup {SavedName(d, saved.data_index)}]
    /\ UNCHANGED <<pipeline, pre, model, fwd, voxel, dump, ds>>

\* the persistence step stores its call count, one more than the count it
\* read; a count another worker stored in between is overwritten
WorkerSaveCount(w) ==
    /\ workers[w] # NoCall
    /\ workers[w].pc = "count"
    /\ saved' = [saved EXCEPT !.data_index = workers[w].idx + 1]
    /\ workers' = [workers EXCEPT ![w].pc = "chain", ![w].at = @ + 1]
    /\ UNCHANGED <<pipeline, pre, model, fwd, voxel, dump, ds>>

\* lines 116-136: the worker handles the outcome of the run and has its
\* return value
WorkerFinish(w) ==
    /\ workers[w] # NoCall
    /\ workers[w].pc = "post"
    /\ workers' = [workers EXCEPT ![w].pc = "done",
                      ![w].out = preprocess_ct_volume_monai(
                                    workers[w].nii_path, workers[w].processed,
                                    workers[w].target)]
    /\ UNCHANGED <<pipeline, pre, model, fwd, voxel, dump, ds, saved>>

\* the worker returns and is free for the next file
WorkerReturn(w) ==
    /\ workers[w] # NoCall
    /\ workers[w].pc = "done"
    /\ workers' = [workers EXCEPT ![w] = NoCall]
    /\ UNCHANGED <<pipeline, pre, model, fwd, voxel, dump, ds, saved>>

NextConcurrent ==
    \/ CreatePipeline
    \/ \E w \in Workers : WorkerStart(w)
    \/ \E w \in Workers : WorkerCall(w)
    \/ \E w \in Workers : WorkerTransform(w)
    \/ \E w \in Workers : WorkerSave(w)
    \/ \E w \in Workers : WorkerSaveCount(w)
    \/ \E w \in Workers : WorkerFinish(w)
    \/ \E w \in Workers : WorkerReturn(w)

SpecConcurrent == Init /\ [][NextConcurrent]_vars

\* what an invocation on nii_path returns when it runs with no other, from
\* an empty output directory
RunAlone(p, nii_path, target_shape_dhw) ==
    preprocess_ct_volume_monai(nii_path, Compose(p, WorkerEnv(p, nii_path)),
                               target_shape_dhw)

Finished(w) == workers[w] # NoCall /\ workers[w].pc = "done"

NativeKinds == {"int", "float", "str", "bool", "None"}

\* the NumPy floats: np.float64 is a subclass of Python's float, the other
\* widths (np.float32, np.float16) are not
NpFloatingKinds == {"np.float64", "np.float32"}

\* the leaves json.dump encodes although they are not native: subclasses of
\* a native type
NativeSubclassKinds == {"np.float64"}

LeafKinds == NativeKinds \cup NpFloatingKinds \cup {"np.integer", "np.ndarray", "Path", "object"}
ContainerKinds == {"dict", "list", "tuple"}

Leaf(k) == [kind |-> k, items |-> <<>>]

\* the values nested at most n containers deep, one value per container
RECURSIVE PyValues(_)
PyValues(n) ==
    { Leaf(k) : k \in LeafKinds }
    \cup IF n = 0 THEN {}
         ELSE { [kind |-> c, items |-> <<v>>] : c \in ContainerKinds, v \in PyValues(n - 1) }

\* the dictionaries handed to safe_json_dump
DumpInputs == { [kind |-> "dict", items |-> <<v>>] : v \in PyValues(MaxNest) }

\* json_serializable: the isinstance chain, first match wins
json_serializable(obj) ==
    IF obj.kind = "np.integer" THEN Leaf("int")
    ELSE IF obj.kind \in NpFloatingKinds THEN Leaf("float")
    ELSE IF obj.kind = "np.ndarray" THEN [kind |-> "list", items |-> <<Leaf("float")>>]
    ELSE IF obj.kind = "tuple" THEN [kind |-> "list", items |-> obj.items]
    ELSE IF obj.kind = "Path" THEN Leaf("str")
    ELSE IF obj.kind = "object" THEN Leaf("str")
    ELSE obj

\* convert_item of safe_json_dump: descends into dicts and lists, hands
\* everything else to json_serializable
RECURSIVE convert_item(_)
convert_item(item) ==
    IF item.kind \in {"dict", "list"}
    THEN [item EXCEPT !.items = [i \in DOMAIN item.items |-> convert_item(item.items[i])]]
    ELSE json_serializable(item)

\* json.dump encodes natives and instances of their subclasses, dicts,
\* lists and tuples, and raises TypeError on any other object it meets
RECURSIVE JsonEncodes(_)
JsonEncodes(v) ==
    IF v.kind \in ContainerKinds
    THEN \A i \in DOMAIN v.items : JsonEncodes(v.items[i])
    ELSE v.kind \in NativeKinds \cup NativeSubclassKinds

safe_json_dump(data) ==
    LET converted_data == convert_item(data)
    IN  [ kind |-> "dump", data |-> data, converted |-> converted_data,
          raised |-> ~JsonEncodes(converted_data),
          exc |-> IF JsonEncodes(converted_data) THEN "" ELSE "TypeError" ]

\* a report is written
Dump ==
    /\ dump = NoCall
    /\ \E data \in DumpInputs : dump' = safe_json_dump(data)
    /\ UNCHANGED <<pipeline, pre, model, fwd, voxel, workers, ds, saved>>

\* the writer returns and the next report can be written
DumpReturn ==
    /\ dump # NoCall
    /\ ~dump.raised
    /\ dump' = NoCall
    /\ UNCHANGED <<pipeline, pre, model, fwd, voxel, workers, ds, saved>>

NextReport == Dump \/ DumpReturn

SpecReport == Init /\ [][NextReport]_vars

\* C15: for data built from nested dicts, lists and tuples over the leaves
\* json_serializable handles, the structure safe_json_dump hands to
\* json.dump holds only JSON-compatible values at every nesting depth (and
\* json.dump therefore writes it).
C15_DumpConvertsAll ==
    dump.kind = "dump" =>
        /\ JsonEncodes(dump.converted)
        /\ ~dump.raised

(***************************************************************************)
(* Dataset wrappers (src/data/dataset.py), as the unit tests and the       *)
(* interface description fix them.  Indices are Python's, from 0.          *)
(***************************************************************************)
PathologyColumns == {"Cardiomegaly", "Atelectasis"}

\* the configured column orders
ColumnOrders ==
    { <<"Cardiomegaly", "Atelectasis">>, <<"Atelectasis", "Cardiomegaly">>,
      <<"Cardiomegaly">>, <<"Atelectasis">> }

\* item i of an image source: the volume of file i and its metadata
SourceItem(i) == [image |-> i, image_meta_dict |-> i, transformed |-> FALSE]

\* an image source of n items
ImageSource(n) == [i \in 0..(n - 1) |-> SourceItem(i)]

\* the label tables of n rows: row i names volume i and flags each pathology
LabelFrames(n) ==
    { [i \in 0..(n - 1) |-> [VolumeName |-> <<"train", i>>, flags |-> f[i]]] :
        f \in [0..(n - 1) -> [PathologyColumns -> {0, 1}]] }

Transforms == {"None", "transform"}

\* the transform of the tests: marks the item it is given
CallTransform(item) == [item EXCEPT !.transformed = TRUE]

\* len(data)
Len_(data) == Cardinality(DOMAIN data)

\* ApplyTransforms.__getitem__: one read of the base item, one call of the
\* transform on it
ApplyTransforms_getitem(data, transform, i) ==
    LET item == data[i]
    IN  [ kind |-> "ApplyTransforms", n |-> Len_(data), idx |-> i, transform |-> transform,
          reads |-> <<i>>,
          calls |-> IF transform = "None" THEN <<>> ELSE <<item>>,
          out |-> IF transform = "None" THEN item ELSE CallTransform(item) ]

RowLabelsFrameOrder(row, pathology_columns) ==
    [ dtype |-> "float32",
      values |-> IF Len(pathology_columns) = 1
                 THEN <<row.flags[pathology_columns[1]]>>
                 ELSE <<row.flags["Cardiomegaly"], row.flags["Atelectasis"]>> ]

\* row[pathology_columns] as a float32 vector, in the configured order
RowLabels(row, pathology_columns) ==
    [ dtype |-> "float32",
      values |-> [k \in DOMAIN pathology_columns |-> row.flags[pathology_columns[k]]] ]

\* LabelAttacherDataset.__getitem__: the image source's item with the label
\* vector and the volume name of the same row added
LabelAttacherDataset_getitem(image_source, labels_df, pathology_columns, i) ==
    LET image_data == image_source[i]
        row == labels_df[i]
    IN  [ kind |-> "LabelAttacherDataset", n |-> Len_(image_source), idx |-> i,
          labels_df |-> labels_df, pathology_columns |-> pathology_columns,
          reads |-> <<i>>,
          out |-> [ image |-> image_data.image,
                    image_meta_dict |-> image_data.image_meta_dict,
                    label |-> RowLabels(row, pathology_columns),
                    volume_name |-> row.VolumeName ] ]

\* __len__ of a wrapper over a source of n items
Wrapper_len(wrapper, data) ==
    [kind |-> "len", wrapper |-> wrapper, n |-> Len_(data), out |-> Len_(data)]

ApplyGetItem ==
    /\ ds = NoCall
    /\ \E n \in 1..MaxItems, t \in Transforms :
         \E i \in 0..(n - 1) : ds' = ApplyTransforms_getitem(ImageSource(n), t, i)
    /\ UNCHANGED <<pipeline, pre, model, fwd, voxel, workers, dump, saved>>

LabelGetItem ==
    /\ ds = NoCall
    /\ \E n \in 1..MaxItems, cols \in ColumnOrders :
         \E i \in 0..(n - 1), df \in LabelFrames(n) :
            ds' = LabelAttacherDataset_getitem(ImageSource(n), df, cols, i)
    /\ UNCHANGED <<pipeline, pre, model, fwd, voxel, workers, dump, saved>>

WrapperLen ==
    /\ ds = NoCall
    /\ \E n \in 0..MaxItems, w \in {"ApplyTransforms", "LabelAttacherDataset", "CTMetadataDataset"} :
          ds' = Wrapper_len(w, ImageSource(n))
    /\ UNCHANGED <<pipeline, pre, model, fwd, voxel, workers, dump, saved>>

DatasetReturn ==
    /\ ds # NoCall
    /\ ds' = NoCall
    /\ UNCHANGED <<pipeline, pre, model, fwd, voxel, workers, dump, saved>>

NextDataset == ApplyGetItem \/ LabelGetItem \/ WrapperLen \/ DatasetReturn

SpecDataset == Init /\ [][NextDataset]_vars

\* C16: a wrapper is as long as its source, and its item i comes from the
\* source's item i alone: ApplyTransforms reads base item i once, calls the
\* transform once on it and returns the transform's result;
\* LabelAttacherDataset returns the source's item i with its keys kept, the
\* float vector of row i's pathology columns in the configured order as
\* 'label' and row i's VolumeName as 'volume_name'.
C16_WrappersAligned ==
    /\ ds.kind = "len" => ds.out = ds.n
    /\ ds.kind = "ApplyTransforms" =>
          /\ ds.reads = <<ds.idx>>
          /\ ds.transform # "None" =>
                /\ ds.calls = <<SourceItem(ds.idx)>>
                /\ ds.out = CallTransform(SourceItem(ds.idx))
          /\ ds.out.image = ds.idx
    /\ ds.kind = "LabelAttacherDataset" =>
          /\ ds.reads = <<ds.idx>>
          /\ ds.out.image = SourceItem(ds.idx).image
          /\ ds.out.image_meta_dict = SourceItem(ds.idx).image_meta_dict
          /\ ds.out.label.dtype = "float32"
          /\ Len(ds.out.label.values) = Len(ds.pathology_columns)
          /\ \A k \in DOMAIN ds.pathology_columns :
                ds.out.label.values[k] = ds.labels_df[ds.idx].flags[ds.pathology_columns[k]]
          /\ ds.out.volume_name = ds.labels_df[ds.idx].VolumeName

C16_Witness ==
    /\ ds.kind = "LabelAttacherDataset"
    /\ ds.n = 2 /\ ds.idx = 1
    /\ ds.pathology_columns = <<"Atelectasis", "Cardiomegaly">>
    /\ ds.out.label.values = <<1, 0>>
    /\ ds.out.volume_name = <<"train", 1>>

(***************************************************************************)
(* Order of the chain.                                                     *)
(***************************************************************************)
\* C17: the chain runs load, channel normalisation, orientation, resampling,
\* intensity clip/rescale, resize, type finalisation in this order; the
\* persistence step is in the chain exactly when a destination is configured
\* and then sits between resize and type finalisation, so the chain has 7
\* steps without and 8 steps with a destination.
C17_ChainOrder ==
    pipeline.kind = "compose" =>
        LET t == pipeline.transforms
            saves == \E k \in DOMAIN t : t[k] = "SaveImaged"
        IN  /\ saves <=> pipeline.save_dir # "None"
            /\ ~saves =>
                  t = << "LoadImaged", "EnsureChannelFirstd", "Orientationd", "Spacingd",
                         "ScaleIntensityRanged", "Resized", "EnsureTyped" >>
            /\ saves =>
                  t = << "LoadImaged", "EnsureChannelFirstd", "Orientationd", "Spacingd",
                         "ScaleIntensityRanged", "Resized", "SaveImaged", "EnsureTyped" >>
            /\ Len(t) = IF saves THEN 8 ELSE 7
            /\ (pre.kind = "call" /\ pre.chain.kind = "exception") =>
                  /\ t[pre.chain.step] = pre.env.fail_at
                  /\ \A k \in 1..(pre.chain.step - 1) : t[k] # pre.env.fail_at

C17_Witness ==
    /\ pipeline.kind = "compose"
    /\ pipeline.save_dir = "out_dir"
    /\ pipeline.transforms[7] = "SaveImaged"
    /\ pre.kind = "call"
    /\ pre.chain.kind = "exception"
    /\ pre.chain.step = 7

(***************************************************************************)
(* Checkpointing and token order.                                          *)
(***************************************************************************)
\* the model with the checkpointing flag flipped, all else the same
OtherPath(m) == [m EXCEPT !.use_checkpointing = ~m.use_checkpointing]

\* the blocks 0..n-1 in index order
InOrder(n) == [i \in 1..n |-> i - 1]

\* C18: whatever the depth, the checkpointing flag and the training flag,
\* a forward pass applies each block exactly once, in index order
\* 0..depth-1, each to the output of the one before, and the checkpointed
\* and the direct path give the same forward result for the same input and
\* parameters.
C18_CheckpointSameResult ==
    (model # NoModel /\ fwd.kind = "call") =>
        /\ fwd.out.res = forward(OtherPath(model), fwd.x).res
        /\ fwd.out.applied = forward(OtherPath(model), fwd.x).applied
        /\ fwd.out.res.ok =>
              /\ fwd.out.applied = InOrder(model.depth)
              /\ Len(fwd.out.calls) = model.depth
              /\ \A i \in DOMAIN fwd.out.calls :
                    /\ fwd.out.calls[i].block = i - 1
                    /\ fwd.out.calls[i].input = InOrder(i - 1)
              /\ \A i, j \in DOMAIN fwd.out.calls :
                    fwd.out.calls[i].via = fwd.out.calls[j].via

C18_Witness ==
    /\ model # NoModel
    /\ fwd.kind = "call"
    /\ model.use_checkpointing /\ model.training
    /\ fwd.out.res.ok
    /\ model.depth >= 2
    /\ Len(fwd.out.calls) = model.depth
    /\ fwd.out.applied = InOrder(model.depth)
    /\ fwd.out.calls[2].input = <<0>>
    /\ fwd.out.calls[1].via = "checkpoint"
    /\ forward(OtherPath(model), fwd.x).calls[1].via = "direct"

\* the patch grid of the recorded input under the model's patch size
InputGrid ==
    << fwd.x[3] \div model.patch_embed.patch_size[1],
       fwd.x[4] \div model.patch_embed.patch_size[2],
       fwd.x[5] \div model.patch_embed.patch_size[3] >>

\* the raster position of grid coordinate (d, h, w): depth-major, then
\* height, then width, after the aggregate token
RasterPosition(d, h, w, grid) == 1 + d * grid[2] * grid[3] + h * grid[3] + w

\* position 0 holds the aggregate token and the patches follow in raster order
RasterOrder ==
    LET t == fwd.out.tokens
        g == InputGrid
    IN  /\ t[1].kind = "cls"
        /\ Len(t) = 1 + g[1] * g[2] * g[3]
        /\ \A d \in 0..(g[1] - 1), h \in 0..(g[2] - 1), w \in 0..(g[3] - 1) :
              /\ t[RasterPosition(d, h, w, g) + 1].kind = "patch"
              /\ t[RasterPosition(d, h, w, g) + 1].coord = <<d, h, w>>
        /\ \A i, j \in 2..Len(t) : t[i].coord = t[j].coord => i = j

\* C19: in the sequence forward_features builds, position 0 holds the
\* aggregate token, the patch at grid coordinate (d, h, w) holds position
\* 1 + d*H'*W' + h*W' + w, every position p receives row p of the
\* positional-embedding table, and patches and positions 1..n_patches
\* correspond one to one.
C19_RasterTokenOrder ==
    (model # NoModel /\ fwd.kind = "call" /\ fwd.out.res.ok) =>
        /\ RasterOrder
        /\ \A p \in 0..(Len(fwd.out.tokens) - 1) : fwd.out.tokens[p + 1].row = p
        /\ Len(fwd.out.tokens) - 1 = model.patch_embed.n_patches

(***************************************************************************)
(* The zero substitute and the form of the target shape.                   *)
(***************************************************************************)
\* C20: when the chain completes without an exception and its result, after
\* the channel fix-up, has one channel and the spatial shape of the target
\* given to the invocation, the call returns that result's data and not the
\* all-zero substitute, in whatever form the caller gives the target shape.
C20_ZeroOnlyOnFailure ==
    (pre.kind = "call" /\ pre.chain.kind = "tensor"
        /\ FixedShape = <<1>> \o pre.target.dims) =>
        /\ pre.out.ret.data \in {"chain", "chain[0]"}
        /\ pre.out.ret.shape = FixedShape
        /\ pre.out.ret.finite = FixedFinite
        /\ \A i \in DOMAIN pre.out.log : pre.out.log[i].level # "error"

====
